---- MODULE Spec2Model ----
(***************************************************************************)
(* A model of royale-pet-bot: the command extraction of bot.py, the admin  *)
(* list of adminlist.py, the page parser of rp_scraper.py and the message  *)
(* handler Bot.on_message that ties them together.                         *)
(*                                                                         *)
(* Text is modelled as a sequence of one-character strings, so that the    *)
(* regular expressions, strip(), lower() and split() of the source are     *)
(* computed character by character.  Python's None is modelled by the      *)
(* record None, and a present value x by Some(x).                          *)
(***************************************************************************)
EXTENDS Integers, Sequences, FiniteSets, TLC

VARIABLES
    message,        \* SpecExtract: the inbound message handed to extract_command
    extracted,      \* SpecExtract: what extract_command returned for it
    adminList,      \* AdminList.list (adminlist.py:5), a Python list of users
    call,           \* SpecAdmin: the last call of an AdminList method and its result
    okCalls,        \* SpecAdmin: per user, the authenticate calls made with the right secret
    doc,            \* SpecParse: the page handed to parse_html_into_stats
    parsed,         \* SpecParse: what parse_html_into_stats did with it
    player_stats,   \* SpecRender: player_data.stats, the groups of a found player
    card,           \* SpecRender: the fields of the card built from it
    last,           \* Spec: the last message handled and what its handler did
    quitting,       \* Spec: users whose quit handler is suspended before self.close()
    closedBy,       \* Spec: the user whose quit handler closed the bot, None while it runs
    authed          \* Spec: users for whom authenticate returned True in a handler

vars == <<message, extracted, adminList, call, okCalls, doc, parsed, player_stats, card,
          last, quitting, closedBy, authed>>

\* The variables of each specification.
extractVars == <<message, extracted>>
callVars == <<call, okCalls>>
parseVars == <<doc, parsed>>
renderVars == <<player_stats, card>>
botVars == <<last, quitting, closedBy, authed>>

\* ------------------------------------------------------------------ bounds

\* Longest text that follows the (possibly absent) mention in a generated message.
MaxBody == 4

\* Number of distinct chat users.
NumUsers == 2

\* How many authenticate calls with the right secret are counted per user.
MaxCalls == 2

\* Stats groups plus stat pairs of a generated page.
MaxNodes == 3

\* ------------------------------------------------------------------ values

None == [none |-> TRUE, v |-> <<>>]
Some(x) == [none |-> FALSE, v |-> x]

Range(s) == {s[i] : i \in 1..Len(s)}

SeqsUpTo(S, n) == UNION {[1..k -> S] : k \in 0..n}

\* ------------------------------------------------------------------ text

\* The characters of the model's alphabet that \s, str.strip and str.split
\* treat as whitespace.
Whitespace == {" ", "\n"}

\* The one character the regular expression '.' does not match.
NL == "\n"

IsSpace(c) == c \in Whitespace

UpperLetters == <<"A","B","C","D","E","F","G","H","I","J","K","L","M",
                  "N","O","P","Q","R","S","T","U","V","W","X","Y","Z">>

LowerLetters == <<"a","b","c","d","e","f","g","h","i","j","k","l","m",
                  "n","o","p","q","r","s","t","u","v","w","x","y","z">>

\* str.lower on one character.
LowerChar(c) ==
    IF \E i \in 1..Len(UpperLetters) : UpperLetters[i] = c
    THEN LowerLetters[CHOOSE i \in 1..Len(UpperLetters) : UpperLetters[i] = c]
    ELSE c

\* str.lower
Lower(s) == [i \in 1..Len(s) |-> LowerChar(s[i])]

\* str.strip: the text without its leading and trailing whitespace.
Strip(s) ==
    LET keep == {i \in 1..Len(s) : ~IsSpace(s[i])}
    IN  IF keep = {} THEN <<>>
        ELSE LET lo == CHOOSE i \in keep : \A j \in keep : i <= j
                 hi == CHOOSE i \in keep : \A j \in keep : j <= i
             IN  SubSeq(s, lo, hi)

\* str.split(): the maximal runs of non-whitespace characters, in order.
RECURSIVE Split(_)
Split(s) ==
    IF s = <<>> THEN <<>>
    ELSE IF IsSpace(Head(s)) THEN Split(Tail(s))
    ELSE LET stops == {i \in 1..Len(s) : IsSpace(s[i])}
             n == IF stops = {} THEN Len(s)
                  ELSE (CHOOSE i \in stops : \A j \in stops : i <= j) - 1
         IN  <<SubSeq(s, 1, n)>> \o Split(SubSeq(s, n + 1, Len(s)))

HasPrefix(s, p) == Len(s) >= Len(p) /\ SubSeq(s, 1, Len(p)) = p

\* ------------------------------------------------------------------ bot.py: extract_command

\* The digits of the bot's user id, as they appear in a mention.
BotIdDigits == <<"4", "2">>

\* The two surface forms of a mention of the bot: <@id> and <@!id>.
MentionPlain(bot_id) == <<"<", "@">> \o bot_id \o <<">">>
MentionNick(bot_id) == <<"<", "@", "!">> \o bot_id \o <<">">>

\* The length of the mention of bot_id the text begins with, 0 if it begins with none.
MentionLen(bot_id, s) ==
    IF HasPrefix(s, MentionPlain(bot_id)) THEN Len(MentionPlain(bot_id))
    ELSE IF HasPrefix(s, MentionNick(bot_id)) THEN Len(MentionNick(bot_id))
    ELSE 0

\* re.match(fr"^<@!?{bot_id}>(.+)$", content): group 1, or None without a match.
\* '.' matches no line break and '$' matches at the end of the text or before
\* one final line break, so the text after the mention must be a non-empty run
\* of characters other than a line break, optionally ended by one line break.
MentionMatch(bot_id, s) ==
    LET n == MentionLen(bot_id, s)
        rest == SubSeq(s, n + 1, Len(s))
        body == IF rest # <<>> /\ rest[Len(rest)] = NL
                THEN SubSeq(rest, 1, Len(rest) - 1) ELSE rest
    IN  IF n = 0 \/ body = <<>> \/ NL \in Range(body) THEN None ELSE Some(body)

\* The ways r"(.+?)\s+(.+)" can match at the start of s: <<k, j>> where group 1
\* is s[1..k] (no line break in it), \s+ is s[k+1..k+j], and group 2 starts at
\* k+j+1 with a character other than a line break.
ArgsSplits(s) ==
    {kj \in (1..Len(s)) \X (1..Len(s)) :
        /\ kj[1] + kj[2] + 1 <= Len(s)
        /\ \A i \in 1..kj[1] : s[i] # NL
        /\ \A i \in (kj[1] + 1)..(kj[1] + kj[2]) : IsSpace(s[i])
        /\ s[kj[1] + kj[2] + 1] # NL}

\* re.match(r"(.+?)\s+(.+)", command_str): groups 1 and 2, or None.  The engine
\* takes the shortest group 1 (lazy), then the longest \s+ (greedy), then the
\* longest group 2, which ends at the next line break or at the end of the text.
ArgsMatch(s) ==
    LET splits == ArgsSplits(s)
    IN  IF splits = {} THEN None
        ELSE LET k == CHOOSE a \in {x[1] : x \in splits} :
                          \A b \in {x[1] : x \in splits} : a <= b
                 js == {x[2] : x \in {y \in splits : y[1] = k}}
                 j == CHOOSE a \in js : \A b \in js : b <= a
                 from == k + j + 1
                 breaks == {i \in from..Len(s) : s[i] = NL}
                 to == IF breaks = {} THEN Len(s)
                       ELSE (CHOOSE a \in breaks : \A b \in breaks : a <= b) - 1
             IN  Some(<<SubSeq(s, 1, k), SubSeq(s, from, to)>>)

\* A variant of extract_command that takes every message for a direct message.
extract_command_everywhere(bot_id, msg) ==
    LET match == MentionMatch(bot_id, msg.content)
        command_str == IF ~match.none THEN match.v ELSE msg.content
        args_match == ArgsMatch(command_str)
        command == IF args_match.none THEN command_str ELSE args_match.v[1]
        args == IF args_match.none THEN None
                ELSE Some(<<args_match.v[2]>> \o Split(args_match.v[2]))
    IN  [command |-> Some(Lower(Strip(command))), args |-> args]

\* extract_command(bot_id, message): (command, args).
extract_command(bot_id, msg) ==
    LET match == MentionMatch(bot_id, msg.content)
    IN  IF match.none /\ ~msg.dm
        THEN [command |-> None, args |-> None]
        ELSE LET command_str == IF ~match.none THEN match.v ELSE msg.content
                 args_match == ArgsMatch(command_str)
                 command == IF args_match.none THEN command_str ELSE args_match.v[1]
                 args == IF args_match.none THEN None
                         ELSE Some(<<args_match.v[2]>> \o Split(args_match.v[2]))
             IN  [command |-> Some(Lower(Strip(command))), args |-> args]

\* ------------------------------------------------------------------ SpecExtract

\* What a generated message begins with: nothing, a mention of the bot in
\* either form, a mention of somebody else, or a mention cut short.
Prefixes == {<<>>, MentionPlain(BotIdDigits), MentionNick(BotIdDigits),
             MentionPlain(<<"4", "3">>), <<"<", "@", "4", "2">>}

BodyChars == {"a", "Q", " ", "\n"}

Contents == {p \o b : p \in Prefixes, b \in SeqsUpTo(BodyChars, MaxBody)}

NotExtracted == [done |-> FALSE, command |-> None, args |-> None]

StartExtract ==
    /\ message \in [content : Contents, dm : BOOLEAN]
    /\ extracted = NotExtracted

Extract ==
    /\ ~extracted.done
    /\ extracted' = [done |-> TRUE] @@ extract_command(BotIdDigits, message)
    /\ UNCHANGED <<message, adminList, callVars, parseVars, renderVars, botVars>>

\* ------------------------------------------------------------------ adminlist.py

Users == 1..NumUsers

\* os.getenv("DISCORD_BOT_ADMIN_PASSWORD")
AdminPassword == <<"p", "w">>

\* A variant of is_authorized that only asks whether anybody is an admin.
is_authorized_anybody(list, user) == list # <<>>

\* AdminList.is_authorized(user)
is_authorized(list, user) == user \in Range(list)

\* A variant of authenticate without the membership test.
authenticate_no_lookup(list, user, password) ==
    IF password = AdminPassword THEN [ret |-> TRUE, list |-> Append(list, user)]
    ELSE [ret |-> FALSE, list |-> list]

\* A variant of authenticate that compares only the beginning of the secret.
authenticate_prefix(list, user, password) ==
    IF user \in Range(list) THEN [ret |-> TRUE, list |-> list]
    ELSE IF HasPrefix(password, AdminPassword) THEN [ret |-> TRUE, list |-> Append(list, user)]
    ELSE [ret |-> FALSE, list |-> list]

\* AdminList.authenticate(user, password): the returned value and the list afterwards.
authenticate(list, user, password) ==
    IF user \in Range(list) THEN [ret |-> TRUE, list |-> list]
    ELSE IF password = AdminPassword THEN [ret |-> TRUE, list |-> Append(list, user)]
    ELSE [ret |-> FALSE, list |-> list]

\* ------------------------------------------------------------------ SpecAdmin

\* The secrets a caller supplies: the right one, a wrong one, the right one
\* with a trailing blank, and the empty text.
Passwords == {AdminPassword, <<"n", "o">>, AdminPassword \o <<" ">>, <<>>}

NoCall == [op |-> "none", user |-> 0, password |-> <<>>, ret |-> FALSE, before |-> <<>>]

StartAdmin ==
    /\ adminList = <<>>
    /\ call = NoCall
    /\ okCalls = [u \in Users |-> 0]

Authenticate(user, password) ==
    LET r == authenticate(adminList, user, password)
    IN  /\ password = AdminPassword => okCalls[user] < MaxCalls
        /\ adminList' = r.list
        /\ call' = [op |-> "authenticate", user |-> user, password |-> password,
                    ret |-> r.ret, before |-> adminList]
        /\ okCalls' = IF password = AdminPassword
                      THEN [okCalls EXCEPT ![user] = @ + 1] ELSE okCalls
        /\ UNCHANGED <<extractVars, parseVars, renderVars, botVars>>

IsAuthorized(user) ==
    /\ call' = [op |-> "is_authorized", user |-> user, password |-> <<>>,
                ret |-> is_authorized(adminList, user), before |-> adminList]
    /\ UNCHANGED <<adminList, okCalls, extractVars, parseVars, renderVars, botVars>>

NextAdmin ==
    \/ \E user \in Users, password \in Passwords : Authenticate(user, password)
    \/ \E user \in Users : IsAuthorized(user)

\* ------------------------------------------------------------------ rp_scraper.py

\* None where a present value is an atomic name (a title, a stat key, a player name).
NoneStr == [none |-> TRUE, v |-> ""]

\* A Python dict, in insertion order: a sequence of <<key, value>> pairs with distinct keys.
DictHas(d, k) == \E i \in 1..Len(d) : d[i][1] = k
DictGet(d, k) == d[CHOOSE i \in 1..Len(d) : d[i][1] = k][2]
DictSet(d, k, v) ==
    IF DictHas(d, k)
    THEN [i \in 1..Len(d) |-> IF d[i][1] = k THEN <<k, v>> ELSE d[i]]
    ELSE Append(d, <<k, v>>)
DictKeys(d) == {d[i][1] : i \in 1..Len(d)}

Digits == <<"0", "1", "2", "3", "4", "5", "6", "7", "8", "9">>
IsDigit(c) == \E i \in 1..Len(Digits) : Digits[i] = c
DigitValue(c) == (CHOOSE i \in 1..Len(Digits) : Digits[i] = c) - 1

\* text.replace(",", "")
RECURSIVE RemoveCommas(_)
RemoveCommas(s) ==
    IF s = <<>> THEN <<>>
    ELSE IF Head(s) = "," THEN RemoveCommas(Tail(s))
    ELSE <<Head(s)>> \o RemoveCommas(Tail(s))

RECURSIVE DecimalValue(_)
DecimalValue(s) ==
    IF s = <<>> THEN 0 ELSE 10 * DecimalValue(SubSeq(s, 1, Len(s) - 1)) + DigitValue(s[Len(s)])

\* A statistic's value or rank: an integer, or the literal text.
Number(n) == [num |-> TRUE, n |-> n, s |-> <<>>]
Literal(s) == [num |-> FALSE, n |-> 0, s |-> s]

\* try: int(text.replace(",", "")) except ValueError: keep the text.
Coerce(text) ==
    LET t == RemoveCommas(text)
    IN  IF t # <<>> /\ \A i \in 1..Len(t) : IsDigit(t[i])
        THEN Number(DecimalValue(t)) ELSE Literal(text)

NoneValue == [none |-> TRUE, v |-> Literal(<<>>)]

\* Statistic(value, rank)
Statistic(value, rank) == [value |-> value, rank |-> rank]

\* One <li class="stat-pair">: each of field, value and ranking is the sequence
\* of the .string values (None when the element holds no single string) of the
\* matching elements inside it, in document order.  The result is the key,
\* value and rank after the three loops, or raised when .replace is called on
\* a .string that is None (AttributeError is not the ValueError that is caught).
parse_stat_pair(stat_pair) ==
    LET key == IF stat_pair.field = <<>> THEN NoneStr ELSE Head(stat_pair.field)
        valueRaises == stat_pair.value # <<>> /\ Head(stat_pair.value).none
        value == IF stat_pair.value = <<>> \/ valueRaises THEN NoneValue
                 ELSE Some(Coerce(Head(stat_pair.value).v))
        rankRaises == stat_pair.ranking # <<>> /\ Head(stat_pair.ranking).none
        rank == IF stat_pair.ranking = <<>> \/ rankRaises THEN NoneValue
                ELSE Some(Coerce(Head(stat_pair.ranking).v))
    IN  [raised |-> valueRaises \/ rankRaises, key |-> key, value |-> value, rank |-> rank]

\* The loop over the stat pairs of one group, from stats_section so far.
RECURSIVE parse_stat_pairs(_, _)
parse_stat_pairs(items, stats_section) ==
    IF items = <<>> THEN [raised |-> FALSE, section |-> stats_section]
    ELSE LET r == parse_stat_pair(Head(items))
         IN  IF r.raised THEN [raised |-> TRUE, section |-> stats_section]
             ELSE parse_stat_pairs(Tail(items),
                      IF ~r.key.none /\ ~r.value.none
                      THEN DictSet(stats_section, r.key.v, Statistic(r.value.v, r.rank))
                      ELSE stats_section)

\* The title of a group: the .string of its first title element, None without one.
GroupTitle(stats_group) ==
    IF stats_group.titles = <<>> THEN NoneStr ELSE Head(stats_group.titles)

\* A variant of the loop over the stats groups that stores no empty section.
RECURSIVE parse_stats_groups_nonempty(_, _)
parse_stats_groups_nonempty(groups, stats) ==
    IF groups = <<>> THEN [raised |-> FALSE, stats |-> stats]
    ELSE LET title == GroupTitle(Head(groups))
         IN  IF title.none THEN parse_stats_groups_nonempty(Tail(groups), stats)
             ELSE LET r == parse_stat_pairs(Head(groups).items, <<>>)
                  IN  IF r.raised THEN [raised |-> TRUE, stats |-> stats]
                      ELSE parse_stats_groups_nonempty(Tail(groups),
                               IF r.section = <<>> THEN stats
                               ELSE DictSet(stats, title.v, r.section))

\* The loop over the stats groups, from player_data.stats so far.
RECURSIVE parse_stats_groups(_, _)
parse_stats_groups(groups, stats) ==
    IF groups = <<>> THEN [raised |-> FALSE, stats |-> stats]
    ELSE LET title == GroupTitle(Head(groups))
         IN  IF title.none THEN parse_stats_groups(Tail(groups), stats)
             ELSE LET r == parse_stat_pairs(Head(groups).items, <<>>)
                  IN  IF r.raised THEN [raised |-> TRUE, stats |-> stats]
                      ELSE parse_stats_groups(Tail(groups), DictSet(stats, title.v, r.section))

\* The name loop: the .string of the last name element of a profile.
PlayerName(names) == IF names = <<>> THEN NoneStr ELSE names[Len(names)]

\* The avatar loop.  An avatar element is "nostyle" (no style attribute: the
\* KeyError is passed over), "bg" (its style is background-image:url(<ref>);
\* and <ref> is taken) or "other" (any other style, kept whole).
RECURSIVE AvatarUrl(_, _)
AvatarUrl(avatars, avatar_url) ==
    IF avatars = <<>> THEN avatar_url
    ELSE AvatarUrl(Tail(avatars),
             CASE Head(avatars) = "bg" -> [none |-> FALSE, v |-> "ref"]
               [] Head(avatars) = "other" -> [none |-> FALSE, v |-> "style"]
               [] OTHER -> avatar_url)

NoData == [name |-> "", avatar_url |-> NoneStr, stats |-> <<>>]

\* parse_html_into_stats(html) for a document html: the PlayerData returned
\* (found), None (~found), or the exception that escapes.
parse_html_into_stats(html) ==
    LET player_name == PlayerName(html.names)
    IN  IF player_name.none THEN [error |-> "none", found |-> FALSE, data |-> NoData]
        ELSE LET r == parse_stats_groups(html.groups, <<>>)
             IN  IF r.raised
                 THEN [error |-> "AttributeError", found |-> FALSE, data |-> NoData]
                 ELSE [error |-> "none", found |-> TRUE,
                       data |-> [name |-> player_name.v,
                                 avatar_url |-> AvatarUrl(html.avatars, NoneStr),
                                 stats |-> r.stats]]

\* ------------------------------------------------------------------ SpecParse

\* The elements a generated page is built from.
NameSlots == {<<>>, <<NoneStr>>, <<[none |-> FALSE, v |-> "Player"]>>}
AvatarSlots == {<<>>, <<"bg">>, <<"nostyle">>, <<"other">>}

\* The profile blocks of the generated pages: every kind of name element without
\* an avatar, and every kind of avatar element beside a readable name.
Profiles ==
    {pr \in [names : NameSlots, avatars : AvatarSlots] :
        pr.avatars = <<>> \/ (pr.names # <<>> /\ ~pr.names[1].none)}
TitleSlots == {<<>>, <<[none |-> FALSE, v |-> "Solo"]>>, <<[none |-> FALSE, v |-> "Duos"]>>}
FieldSlots == {<<>>, <<[none |-> FALSE, v |-> "Wins"]>>, <<[none |-> FALSE, v |-> "Kills"]>>}
ValueSlots == {<<>>, <<None>>, <<Some(<<"1", ",", "2">>)>>, <<Some(<<"x">>)>>}
RankSlots == {<<>>, <<None>>, <<Some(<<"3">>)>>}
StatPairs == [field : FieldSlots, value : ValueSlots, ranking : RankSlots]

NotParsed == [done |-> FALSE, error |-> "none", found |-> FALSE, data |-> NoData]

RECURSIVE CountItems(_)
CountItems(groups) ==
    IF groups = <<>> THEN 0 ELSE Len(Head(groups).items) + CountItems(Tail(groups))

\* Groups and stat pairs of the page.
Nodes(html) == Len(html.groups) + CountItems(html.groups)

StartParse ==
    /\ doc \in {[names |-> pr.names, avatars |-> pr.avatars, groups |-> <<>>] : pr \in Profiles}
    /\ parsed = NotParsed

\* The page gets one more stats group.
AddGroup(titles) ==
    /\ ~parsed.done
    /\ Nodes(doc) < MaxNodes
    /\ doc' = [doc EXCEPT !.groups = Append(@, [titles |-> titles, items |-> <<>>])]
    /\ UNCHANGED <<parsed, extractVars, adminList, callVars, renderVars, botVars>>

\* The last stats group of the page gets one more stat pair.
AddStatPair(stat_pair) ==
    /\ ~parsed.done
    /\ doc.groups # <<>>
    /\ Nodes(doc) < MaxNodes
    /\ doc' = [doc EXCEPT !.groups[Len(doc.groups)].items = Append(@, stat_pair)]
    /\ UNCHANGED <<parsed, extractVars, adminList, callVars, renderVars, botVars>>

Parse ==
    /\ ~parsed.done
    /\ parsed' = [done |-> TRUE] @@ parse_html_into_stats(doc)
    /\ UNCHANGED <<doc, extractVars, adminList, callVars, renderVars, botVars>>

NextParse ==
    \/ \E titles \in TitleSlots : AddGroup(titles)
    \/ \E stat_pair \in StatPairs : AddStatPair(stat_pair)
    \/ Parse

\* ------------------------------------------------------------------ bot.py: the stats card

ModeSections == <<"Solo", "Duos", "Squads">>
StatsGroups == <<"Solo", "Duos", "Squads", "Combat", "Miscellaneous">>
TopKeys == {"Top 5", "Top 3", "Top 2"}

\* len([mode for mode in ["Solo", "Duos", "Squads"] if mode in player_data.stats])
num_mode_sections(stats) ==
    Cardinality({i \in 1..Len(ModeSections) : DictHas(stats, ModeSections[i])})

\* A variant of make_inline that singles out the first mode instead of the last.
make_inline_first(n, stats_group) ==
    IF n = 1 /\ stats_group \in Range(ModeSections) THEN FALSE
    ELSE IF n = 3 /\ stats_group = "Solo" THEN FALSE
    ELSE TRUE

\* The inline flag of the field of stats_group.
make_inline(n, stats_group) ==
    IF n = 1 /\ stats_group \in Range(ModeSections) THEN FALSE
    ELSE IF n = 3 /\ stats_group = "Squads" THEN FALSE
    ELSE TRUE

NoRatio == [none |-> TRUE, v |-> [kind |-> "", num |-> 0, den |-> 0]]

\* try: section[a].value / section[b].value, shown as kind; except: pass.
\* The division raises, and the figure is left out, when a key is missing,
\* when an operand is text, and when the divisor is 0.
Ratio(section, a, b, kind) ==
    IF /\ DictHas(section, a) /\ DictHas(section, b)
       /\ DictGet(section, a).value.num /\ DictGet(section, b).value.num
       /\ DictGet(section, b).value.n # 0
    THEN [none |-> FALSE,
          v |-> [kind |-> kind, num |-> DictGet(section, a).value.n,
                 den |-> DictGet(section, b).value.n]]
    ELSE NoRatio

\* One line of stats_content: the key, the statistic, and the derived figure.
StatsLine(section, key) ==
    [key |-> key, stat |-> DictGet(section, key),
     derived |-> IF key = "Wins" THEN Ratio(section, "Wins", "Games Played", "percent")
                 ELSE IF key = "Kills" THEN Ratio(section, "Kills", "Deaths", "kd")
                 ELSE IF key \in TopKeys THEN Ratio(section, key, "Games Played", "percent")
                 ELSE NoRatio]

stats_content(section) == [i \in 1..Len(section) |-> StatsLine(section, section[i][1])]

\* The loop over the five groups: the fields added to the card, in order.
RECURSIVE embed_fields(_, _)
embed_fields(stats, groups) ==
    IF groups = <<>> THEN <<>>
    ELSE (IF DictHas(stats, Head(groups))
          THEN <<[name |-> Head(groups),
                  value |-> stats_content(DictGet(stats, Head(groups))),
                  inline |-> make_inline(num_mode_sections(stats), Head(groups))]>>
          ELSE <<>>) \o embed_fields(stats, Tail(groups))

\* ------------------------------------------------------------------ SpecRender

\* Group titles of generated player data: the five the card shows and one it does not.
RenderTitles == StatsGroups \o <<"Ranked">>

RenderSections ==
    {<<>>,
     << <<"Wins", Statistic(Number(1), NoneValue)>>,
        <<"Games Played", Statistic(Number(4), Some(Number(3)))>> >>,
     << <<"Kills", Statistic(Number(5), NoneValue)>>,
        <<"Deaths", Statistic(Number(0), NoneValue)>>,
        <<"Top 5", Statistic(Literal(<<"x">>), NoneValue)>> >>}

\* player_data.stats holding, of the titles from index i on, those pick selects.
RECURSIVE StatsOf(_, _)
StatsOf(pick, i) ==
    IF i > Len(RenderTitles) THEN <<>>
    ELSE (IF pick[i].present THEN << <<RenderTitles[i], pick[i].section>> >> ELSE <<>>)
         \o StatsOf(pick, i + 1)

NotRendered == [done |-> FALSE, fields |-> <<>>]

StartRender ==
    /\ player_stats \in
           {StatsOf(pick, 1) :
               pick \in [1..Len(RenderTitles) -> [present : BOOLEAN, section : RenderSections]]}
    /\ card = NotRendered

Render ==
    /\ ~card.done
    /\ card' = [done |-> TRUE, fields |-> embed_fields(player_stats, StatsGroups)]
    /\ UNCHANGED <<player_stats, extractVars, adminList, callVars, parseVars, botVars>>

\* ------------------------------------------------------------------ rp_scraper.py: fetching

\* fetch_page: what the HTTP request does.  net is "URLError" (urlopen raised),
\* "status" (a response whose status is not 200) or "ok" (200, with the page).
fetch_page(env) ==
    IF env.net = "ok" THEN [error |-> "none", page |-> env.page]
    ELSE [error |-> "FetchError", page |-> env.page]

\* fetch_player_data(player_name_or_id): the parser's result for the page, or
\* the FetchError of fetch_page.
fetch_player_data(env) ==
    LET f == fetch_page(env)
    IN  IF f.error # "none" THEN [error |-> f.error, found |-> FALSE, data |-> NoData]
        ELSE parse_html_into_stats(f.page)

\* ------------------------------------------------------------------ bot.py: Bot.on_message

Word_auth == <<"a", "u", "t", "h">>
Word_quit == <<"q", "u", "i", "t">>
Word_help == <<"h", "e", "l", "p">>
Word_stats == <<"s", "t", "a", "t", "s">>

Text(kind) == [kind |-> kind, fields |-> <<>>]

\* notify_admins(content, about_user): one message to every user in self.admin.list.
notify_admins(list, kind) == [i \in 1..Len(list) |-> [to |-> list[i], kind |-> kind]]

\* What one run of on_message does up to its return, its exception or its
\* suspension before self.close(): the admin list afterwards, the replies sent
\* to the message's channel, the messages sent to admins, the exception that
\* escapes, whether the handler is suspended at "await self.notify_admins" of
\* the quit branch, whether authenticate returned True, whether the page was fetched.
Outcome(list, replies, notified, error) ==
    [list |-> list, replies |-> replies, notified |-> notified, error |-> error,
     suspended |-> FALSE, authOk |-> FALSE, fetched |-> FALSE]

on_message_auth(list, msg, args) ==
    IF args.none THEN Outcome(list, <<>>, <<>>, "none")
    ELSE IF ~msg.dm THEN Outcome(list, <<Text("dm_only")>>, <<>>, "none")
    ELSE IF is_authorized(list, msg.author)
    THEN Outcome(list, <<Text("already_authenticated")>>, <<>>, "none")
    ELSE LET a == authenticate(list, msg.author, args.v[1])
         IN  IF a.ret
             THEN [Outcome(a.list, <<>>, notify_admins(a.list, "auth_ok"), "none")
                      EXCEPT !.authOk = TRUE]
             ELSE Outcome(a.list, <<>>, notify_admins(a.list, "auth_failed"), "none")

on_message_quit(list, msg) ==
    IF ~is_authorized(list, msg.author) THEN Outcome(list, <<>>, <<>>, "none")
    ELSE [Outcome(list, <<>>, notify_admins(list, "quitting"), "none")
             EXCEPT !.suspended = TRUE]

\* The stats branch.  args[1] raises IndexError when the argument text holds no
\* token; the except branch for FetchError reads the unbound name e and raises
\* NameError before it replies; an exception of the parser escapes as it is.
on_message_stats(list, msg, args, env) ==
    IF args.none THEN Outcome(list, <<Text("specify_player")>>, <<>>, "none")
    ELSE IF Len(args.v) < 2 THEN Outcome(list, <<>>, <<>>, "IndexError")
    ELSE LET r == fetch_player_data(env)
             o == IF r.error = "FetchError" THEN Outcome(list, <<>>, <<>>, "NameError")
                  ELSE IF r.error # "none" THEN Outcome(list, <<>>, <<>>, r.error)
                  ELSE IF ~r.found THEN Outcome(list, <<Text("player_not_found")>>, <<>>, "none")
                  ELSE Outcome(list,
                           <<[kind |-> "card",
                              fields |-> embed_fields(r.data.stats, StatsGroups)]>>,
                           <<>>, "none")
         IN  [o EXCEPT !.fetched = TRUE]

\* The texts of inbound messages: commands typed alone (as in a direct
\* message), commands after a mention and a blank, and chatter.
ChatContents ==
    {Word_auth \o <<" ">> \o AdminPassword,
     Word_auth \o <<" ", "n", "o">>,
     Word_auth,
     Word_quit,
     Word_help,
     Word_stats \o <<" ", "x">>}
    \cup {MentionPlain(BotIdDigits) \o <<" ">> \o c :
             c \in {Word_auth \o <<" ">> \o AdminPassword,
                    Word_quit,
                    <<"Q", "u", "i", "t">>,
                    Word_help,
                    Word_stats \o <<" ", "x">>,
                    Word_stats \o <<" ", " ">>,
                    Word_stats}}
    \cup {MentionNick(BotIdDigits) \o <<" ">> \o Word_quit,
          MentionPlain(<<"4", "3">>) \o <<" ">> \o Word_quit}
    \cup {<<>>, <<"h", "i">>, MentionPlain(BotIdDigits), MentionPlain(BotIdDigits) \o <<" ">>,
          <<"h", "i", " ">> \o MentionPlain(BotIdDigits) \o <<" ">> \o Word_help}

ChatMessages == [author : Users, dm : BOOLEAN, content : ChatContents]

\* extract_command(self.user.id, message) for every chat message.  (@@ makes
\* TLC tabulate the function once instead of evaluating extract_command anew at
\* every application.)
ChatCommands ==
    [m \in [dm : BOOLEAN, content : ChatContents] |-> extract_command(BotIdDigits, m)] @@ <<>>

on_message(list, msg, env) ==
    LET e == ChatCommands[[dm |-> msg.dm, content |-> msg.content]]
    IN  IF e.command.none THEN Outcome(list, <<>>, <<>>, "none")
        ELSE IF e.command.v = Word_auth THEN on_message_auth(list, msg, e.args)
        ELSE IF e.command.v = Word_quit THEN on_message_quit(list, msg)
        ELSE IF e.command.v = Word_help THEN Outcome(list, <<Text("help")>>, <<>>, "none")
        ELSE IF e.command.v = Word_stats THEN on_message_stats(list, msg, e.args, env)
        ELSE Outcome(list, <<>>, <<>>, "none")

\* ------------------------------------------------------------------ Spec: the running bot

Pair(key, value, rank) == [field |-> key, value |-> value, ranking |-> rank]
Titled(title, items) == [titles |-> <<[none |-> FALSE, v |-> title]>>, items |-> items]
Named(groups) ==
    [names |-> <<[none |-> FALSE, v |-> "Player"]>>, avatars |-> <<"bg">>, groups |-> groups]
Key(k) == <<[none |-> FALSE, v |-> k]>>
Val(t) == <<Some(t)>>

\* The pages the lookup answers with: one without a profile name, one with a
\* single mode, one with three modes of which one has no stat pair, and one
\* whose value element holds no single string.
SamplePages ==
    {[names |-> <<>>, avatars |-> <<>>, groups |-> <<>>],
     Named(<<Titled("Solo", <<Pair(Key("Wins"), Val(<<"1", ",", "2">>), <<>>),
                              Pair(Key("Games Played"), Val(<<"4", "0">>), Val(<<"7">>))>>)>>),
     Named(<<Titled("Solo", <<Pair(Key("Kills"), Val(<<"3">>), <<>>)>>),
             Titled("Duos", <<Pair(Key("Kills"), Val(<<"x">>), <<>>)>>),
             Titled("Squads", <<>>)>>),
     Named(<<Titled("Solo", <<Pair(Key("Wins"), <<None>>, <<>>)>>)>>)}

NoPage == [names |-> <<>>, avatars |-> <<>>, groups |-> <<>>]
NoEnv == [net |-> "unused", page |-> NoPage]

Envs == [net : {"URLError", "status"}, page : {NoPage}] \cup [net : {"ok"}, page : SamplePages]

NoMessage == [author |-> 0, dm |-> FALSE, content |-> <<>>]

NotHandled ==
    [handled |-> FALSE, msg |-> NoMessage, env |-> NoEnv, before |-> <<>>,
     out |-> Outcome(<<>>, <<>>, <<>>, "none")]

NobodyClosed == [none |-> TRUE, v |-> 0]

StartBot ==
    /\ adminList = <<>>
    /\ last = NotHandled
    /\ quitting = {}
    /\ closedBy = NobodyClosed
    /\ authed = {}

\* The bot is closed once some handler has run self.close().
closed == ~closedBy.none

\* One inbound message is handled, up to the handler's return, exception or suspension.
OnMessage(msg, env) ==
    /\ ~closed
    /\ \E o \in {on_message(adminList, msg, env)} :
        /\ adminList' = o.list
        /\ last' = [handled |-> TRUE, msg |-> msg,
                    env |-> IF o.fetched THEN env ELSE NoEnv,
                    before |-> adminList, out |-> o]
        /\ quitting' = IF o.suspended THEN quitting \cup {msg.author} ELSE quitting
        /\ authed' = IF o.authOk THEN authed \cup {msg.author} ELSE authed
        /\ UNCHANGED <<closedBy, extractVars, callVars, parseVars, renderVars>>

\* The notifications of a suspended quit handler were sent: it runs self.close().
ResumeQuit(user) ==
    /\ user \in quitting
    /\ quitting' = quitting \ {user}
    /\ closedBy' = IF closed THEN closedBy ELSE [none |-> FALSE, v |-> user]
    /\ UNCHANGED <<adminList, last, authed, extractVars, callVars, parseVars, renderVars>>

\* A notification of a suspended quit handler could not be sent: the handler
\* ends with that exception and self.close() is not run.
QuitNotifyFails(user) ==
    /\ user \in quitting
    /\ quitting' = quitting \ {user}
    /\ UNCHANGED <<adminList, last, authed, closedBy,
                    extractVars, callVars, parseVars, renderVars>>

\* The lookup's answer is drawn only for a message whose handler makes the request.
EnvsFor(msg) == IF on_message(adminList, msg, NoEnv).fetched THEN Envs ELSE {NoEnv}

NextBot ==
    \/ \E msg \in ChatMessages : \E env \in EnvsFor(msg) : OnMessage(msg, env)
    \/ \E user \in Users : ResumeQuit(user)
    \/ \E user \in Users : QuitNotifyFails(user)

\* ------------------------------------------------------------------ specifications

\* The values of the variables a specification does not use.
IdleExtract == message = [content |-> <<>>, dm |-> FALSE] /\ extracted = NotExtracted
IdleCalls == call = NoCall /\ okCalls = [u \in Users |-> 0]
IdleParse == doc = NoPage /\ parsed = NotParsed
IdleRender == player_stats = <<>> /\ card = NotRendered
IdleBot == last = NotHandled /\ quitting = {} /\ closedBy = NobodyClosed /\ authed = {}

InitBot == StartBot /\ IdleExtract /\ IdleCalls /\ IdleParse /\ IdleRender
InitExtract == StartExtract /\ StartAdmin /\ IdleParse /\ IdleRender /\ IdleBot
InitAdmin == StartAdmin /\ IdleExtract /\ IdleParse /\ IdleRender /\ IdleBot
InitParse == StartParse /\ IdleExtract /\ StartAdmin /\ IdleRender /\ IdleBot
InitRender == StartRender /\ IdleExtract /\ StartAdmin /\ IdleParse /\ IdleBot

NextExtract == Extract

NextRender == Render

\* The running bot: messages arrive and are handled.
Spec == InitBot /\ [][NextBot]_vars

\* extract_command applied to every generated message.
SpecExtract == InitExtract /\ [][NextExtract]_vars

\* The methods of AdminList called in every order.
SpecAdmin == InitAdmin /\ [][NextAdmin]_vars

\* parse_html_into_stats applied to every generated page.
SpecParse == InitParse /\ [][NextParse]_vars

\* The card's fields built from every generated player data.
SpecRender == InitRender /\ [][NextRender]_vars

\* ------------------------------------------------------------------ properties

\* The text begins with a mention of the bot, in either form.
BeginsWithBotMention(content) ==
    \/ HasPrefix(content, <<"<", "@", "4", "2", ">">>)
    \/ HasPrefix(content, <<"<", "@", "!", "4", "2", ">">>)

\* C1: authenticate called with the right secret returns true every time, the
\* first such call for a user adds exactly one entry and a later one adds none,
\* and no user is in the admin list more than once.
C1_AuthenticateIdempotent ==
    /\ \A i, j \in 1..Len(adminList) : adminList[i] = adminList[j] => i = j
    /\ \A u \in Users :
          okCalls[u] >= 1 => Cardinality({i \in 1..Len(adminList) : adminList[i] = u}) = 1
    /\ (call.op = "authenticate" /\ call.password = AdminPassword) =>
          /\ call.ret
          /\ adminList = IF call.user \in Range(call.before) THEN call.before
                         ELSE Append(call.before, call.user)

\* C1: a user's second call with the right secret has returned true and left the list as it was.
C1_Witness ==
    /\ call.op = "authenticate" /\ call.password = AdminPassword
    /\ okCalls[call.user] = 2
    /\ call.ret
    /\ adminList = call.before
    /\ Len(adminList) = 2

\* C2, as claimed: authenticate called with a secret other than the admin
\* credential returns false and leaves the admin list unchanged.
C2_WrongSecretReturnsFalse ==
    (call.op = "authenticate" /\ call.password # AdminPassword) =>
        (~call.ret /\ adminList = call.before)

\* C2, amended: authenticate called with a secret other than the admin
\* credential leaves the admin list unchanged; it returns false when the user
\* is not in the list and true when the user already is.
C2_WrongSecretNeverMutates ==
    (call.op = "authenticate" /\ call.password # AdminPassword) =>
        /\ adminList = call.before
        /\ call.ret <=> call.user \in Range(call.before)

\* C2: a wrong secret was refused while somebody else is an admin.
C2_Witness ==
    /\ call.op = "authenticate" /\ call.password # AdminPassword
    /\ call.password # <<>>
    /\ ~call.ret
    /\ adminList # <<>>
    /\ adminList = call.before

\* C3: a message that was not sent in a direct message and whose text does not
\* begin with a mention of the bot yields no command, and its handler sends
\* nothing, raises nothing, does not suspend and leaves the admin list as it was.
C3_UnaddressedIgnored ==
    (last.handled /\ ~last.msg.dm /\ ~BeginsWithBotMention(last.msg.content)) =>
        /\ extract_command(BotIdDigits, last.msg) = [command |-> None, args |-> None]
        /\ last.out.replies = <<>>
        /\ last.out.notified = <<>>
        /\ last.out.error = "none"
        /\ ~last.out.suspended
        /\ adminList = last.before

\* C3: an admin typed quit in a channel without mentioning the bot.
C3_Witness ==
    /\ last.handled /\ ~last.msg.dm
    /\ last.msg.content = Word_quit
    /\ last.msg.author \in Range(adminList)

\* The command string the specification reads: the text after the mention, or
\* the whole text of a direct message that begins with no mention.
ClaimedCommandString(content) ==
    IF HasPrefix(content, <<"<", "@", "4", "2", ">">>) THEN SubSeq(content, 6, Len(content))
    ELSE IF HasPrefix(content, <<"<", "@", "!", "4", "2", ">">>)
    THEN SubSeq(content, 7, Len(content))
    ELSE content

\* C4, as claimed: for a message addressed to the bot (by a mention at its
\* start or as a direct message) extract_command returns a command.  With
\* args, the command string is a leading part, whitespace and a remainder that
\* runs to its end: the command is the leading part trimmed and lower-cased,
\* args[0] the untouched remainder and args[1..] its tokens.  Without args,
\* the command is the whole command string trimmed and lower-cased.
C4_ExtractSplitsCommand ==
    (extracted.done /\ (message.dm \/ BeginsWithBotMention(message.content))) =>
        LET cs == ClaimedCommandString(message.content)
        IN  /\ ~extracted.command.none
            /\ extracted.args.none => extracted.command.v = Lower(Strip(cs))
            /\ ~extracted.args.none =>
                  \E k \in 1..Len(cs), j \in 1..Len(cs) :
                      /\ k + j < Len(cs)
                      /\ \A i \in (k + 1)..(k + j) : IsSpace(cs[i])
                      /\ extracted.command.v = Lower(Strip(SubSeq(cs, 1, k)))
                      /\ extracted.args.v =
                             <<SubSeq(cs, k + j + 1, Len(cs))>>
                                 \o Split(SubSeq(cs, k + j + 1, Len(cs)))

\* C5, as claimed: a command that extract_command returns is never the empty text.
C5_CommandNeverEmpty ==
    (extracted.done /\ ~extracted.command.none) => extracted.command.v # <<>>

\* C6, as claimed: when the lookup of a stats command fails with FetchError the
\* handler raises nothing, sends the apology to the channel and the detail to
\* every admin.
C6_FetchErrorReported ==
    (last.handled /\ last.env.net \in {"URLError", "status"}) =>
        /\ last.out.error = "none"
        /\ \E i \in 1..Len(last.out.replies) : last.out.replies[i].kind = "apology"
        /\ {last.out.notified[i].to : i \in 1..Len(last.out.notified)} = Range(last.before)

\* C7: a quit command from a user who is not in the admin list gets no reply,
\* notifies nobody and does not suspend towards self.close(); only handlers of
\* users for whom authenticate returned true wait to close the bot, and the bot
\* is closed only by such a handler.
C7_QuitNeedsAdmin ==
    /\ (/\ last.handled
        /\ extract_command(BotIdDigits, last.msg).command = Some(Word_quit)
        /\ last.msg.author \notin Range(last.before)) =>
           /\ last.out.replies = <<>>
           /\ last.out.notified = <<>>
           /\ ~last.out.suspended
    /\ quitting \subseteq authed
    /\ closed => closedBy.v \in authed

\* C7: the bot was closed by an admin's quit after somebody who is no admin
\* had asked it to quit.
C7_Witness ==
    /\ closed
    /\ last.handled
    /\ extract_command(BotIdDigits, last.msg).command = Some(Word_quit)
    /\ last.msg.author \notin Range(last.before)
    /\ last.msg.author # closedBy.v

\* The modes, of Solo, Duos and Squads, that the player data holds.
PresentModes == {m \in Range(ModeSections) : DictHas(player_stats, m)}

\* The field of the card named g.
FieldNamed(g) == card.fields[CHOOSE i \in 1..Len(card.fields) : card.fields[i].name = g]

\* C8: the card has one field per group of Solo, Duos, Squads, Combat and
\* Miscellaneous that the player data holds, in that order; a single present
\* mode is not inline, of three present modes only Squads is not inline, with
\* no or two modes every field is inline, and Combat and Miscellaneous are
\* always inline.
C8_InlineRule ==
    card.done =>
        /\ [i \in 1..Len(card.fields) |-> card.fields[i].name]
               = SelectSeq(StatsGroups, LAMBDA g : DictHas(player_stats, g))
        /\ Cardinality(PresentModes) = 1 => \A m \in PresentModes : ~FieldNamed(m).inline
        /\ Cardinality(PresentModes) = 3 =>
               /\ ~FieldNamed("Squads").inline
               /\ FieldNamed("Solo").inline
               /\ FieldNamed("Duos").inline
        /\ Cardinality(PresentModes) \in {0, 2} =>
               \A i \in 1..Len(card.fields) : card.fields[i].inline
        /\ \A i \in 1..Len(card.fields) :
               card.fields[i].name \in {"Combat", "Miscellaneous"} => card.fields[i].inline

\* C8: a card for a player with all three modes, Combat and a group the card does not show.
C8_Witness ==
    /\ card.done
    /\ Cardinality(PresentModes) = 3
    /\ DictHas(player_stats, "Combat")
    /\ DictHas(player_stats, "Ranked")
    /\ Len(card.fields) = 4

\* A stat pair with a label and a value that can be read.
Matched(stat_pair) ==
    /\ stat_pair.field # <<>> /\ ~Head(stat_pair.field).none
    /\ stat_pair.value # <<>> /\ ~Head(stat_pair.value).none

\* C9, as claimed: for a page with a profile name parse_html_into_stats raises
\* nothing, and every stat pair with a label and a value under a titled group
\* has its label in the mapping returned for that group.
C9_ParseNeverRaises ==
    (parsed.done /\ ~PlayerName(doc.names).none) =>
        /\ parsed.error = "none"
        /\ parsed.found
        /\ \A g \in 1..Len(doc.groups) :
              ~GroupTitle(doc.groups[g]).none =>
                  /\ DictHas(parsed.data.stats, GroupTitle(doc.groups[g]).v)
                  /\ (\A h \in (g + 1)..Len(doc.groups) :
                          GroupTitle(doc.groups[h]) # GroupTitle(doc.groups[g])) =>
                      \A k \in 1..Len(doc.groups[g].items) :
                          Matched(doc.groups[g].items[k]) =>
                              DictHas(DictGet(parsed.data.stats, GroupTitle(doc.groups[g]).v),
                                      Head(doc.groups[g].items[k].field).v)

\* C10, as claimed: a title is a key of the returned stats mapping only if a
\* group with that title has a stat pair with a label and a value.
C10_OnlyMatchedGroupsStored ==
    (parsed.done /\ parsed.found) =>
        \A t \in DictKeys(parsed.data.stats) :
            \E g \in 1..Len(doc.groups) :
                /\ GroupTitle(doc.groups[g]) = [none |-> FALSE, v |-> t]
                /\ \E k \in 1..Len(doc.groups[g].items) : Matched(doc.groups[g].items[k])

\* The last group of the page whose title is t.
LastTitled(t) ==
    doc.groups[CHOOSE g \in 1..Len(doc.groups) :
                   /\ GroupTitle(doc.groups[g]) = [none |-> FALSE, v |-> t]
                   /\ \A h \in (g + 1)..Len(doc.groups) :
                          GroupTitle(doc.groups[h]) # [none |-> FALSE, v |-> t]]

\* C10, amended: a title is a key of the returned stats mapping exactly if some
\* group has that title, and the mapping stored under it holds the labels of
\* the stat pairs with a label and a value of the last such group, none when
\* the group has no such stat pair.
C10_TitledGroupsStored ==
    (parsed.done /\ parsed.found) =>
        /\ DictKeys(parsed.data.stats)
               = {GroupTitle(doc.groups[g]).v :
                      g \in {h \in 1..Len(doc.groups) : ~GroupTitle(doc.groups[h]).none}}
        /\ \A t \in DictKeys(parsed.data.stats) :
               DictKeys(DictGet(parsed.data.stats, t))
                   = {Head(LastTitled(t).items[k].field).v :
                          k \in {n \in 1..Len(LastTitled(t).items) :
                                     Matched(LastTitled(t).items[n])}}

\* C10: player data was returned with a group stored under its title that
\* holds no statistic, beside a group that holds one.
C10_Witness ==
    /\ parsed.done /\ parsed.found
    /\ \E t \in DictKeys(parsed.data.stats) : DictGet(parsed.data.stats, t) = <<>>
    /\ \E t \in DictKeys(parsed.data.stats) : DictGet(parsed.data.stats, t) # <<>>

====
